---------------------------- MODULE Spec2Model ----------------------------
(***************************************************************************)
(* Model of custodian: average-cost (ACB) accounting over a holdings store *)
(* (src/custodian/utils.py, src/custodian/processing.py).                  *)
(*                                                                         *)
(* Numbers are exact rationals <<numerator, denominator>> in lowest terms  *)
(* with a positive denominator, so that equality of values is equality of  *)
(* numbers.  Dates are positive integers ordered as the date strings are.  *)
(* An absent value (Python None) is the empty tuple <<>>; a present        *)
(* optional value v is v itself when v is a tuple (a rate) and <<v>> when  *)
(* it is a record (a gain).                                                *)
(***************************************************************************)
EXTENDS Integers, Sequences, FiniteSets, TLC

VARIABLES holdings, last, nops

vars == <<holdings, last, nops>>

---------------------------------------------------------------------------
(* Bounds of the model *)

MaxDate == 2

MaxOps == 1

MaxAdds == 3

MaxRun == 2

MaxObjects == 3

MaxCalls == 2

MaxBatch == 2

---------------------------------------------------------------------------
(* Rational arithmetic *)

Abs(n) == IF n < 0 THEN -n ELSE n

RECURSIVE GCD(_, _)
GCD(a, b) == IF b = 0 THEN a ELSE GCD(b, a % b)

Norm(n, d) ==
    LET g == GCD(Abs(n), Abs(d))
        s == IF d < 0 THEN -1 ELSE 1
    IN  <<(s * n) \div g, (s * d) \div g>>

R(n) == <<n, 1>>

Zero == R(0)

One == R(1)

RAdd(x, y) == Norm(x[1] * y[2] + y[1] * x[2], x[2] * y[2])

RNeg(x) == <<-x[1], x[2]>>

RSub(x, y) == RAdd(x, RNeg(y))

RMul(x, y) == Norm(x[1] * y[1], x[2] * y[2])

RDiv(x, y) == Norm(x[1] * y[2], x[2] * y[1])

RLt(x, y) == x[1] * y[2] < y[1] * x[2]

RLe(x, y) == x[1] * y[2] <= y[1] * x[2]

RAbs(x) == <<Abs(x[1]), x[2]>>

RMax(x, y) == IF RLt(x, y) THEN y ELSE x

---------------------------------------------------------------------------
(* Python None *)

None == <<>>

(* Asset.date of Holdings.get(asset) with the date argument omitted *)
NoDate == 0

Dates == 1..MaxDate

reporting_currency == "CAD"

Assets == {"AAPL", "CAD", "USD"}

(* Order of the asset codes as Python compares the strings *)
AssetRank(a) == CASE a = "AAPL" -> 1 [] a = "CAD" -> 2 [] a = "USD" -> 3

---------------------------------------------------------------------------
(* Descriptions: sequences of characters *)

Vest == <<"V", "e", "s", "t">>

Funding == <<"F", "u", "n", "d", "i", "n", "g">>

(* sub in s *)
Contains(sub, s) ==
    \E i \in 1..(Len(s) - Len(sub) + 1) : SubSeq(s, i, i + Len(sub) - 1) = sub

(* Replacing the first occurrence only *)
Replace_first(s, old, new) ==
    IF ~Contains(old, s) THEN s
    ELSE LET i == CHOOSE j \in 1..(Len(s) - Len(old) + 1) :
                     /\ SubSeq(s, j, j + Len(old) - 1) = old
                     /\ \A k \in 1..(j - 1) : SubSeq(s, k, k + Len(old) - 1) /= old
         IN  SubSeq(s, 1, i - 1) \o new \o SubSeq(s, i + Len(old), Len(s))

(* s.replace(old, new): every non-overlapping occurrence, left to right *)
RECURSIVE Replace(_, _, _)
Replace(s, old, new) ==
    IF Len(s) < Len(old) THEN s
    ELSE IF SubSeq(s, 1, Len(old)) = old
         THEN new \o Replace(SubSeq(s, Len(old) + 1, Len(s)), old, new)
         ELSE <<s[1]>> \o Replace(SubSeq(s, 2, Len(s)), old, new)


---------------------------------------------------------------------------
(* BankofCanadaRates: the table of daily rates and its lookup *)

(* self.rates: one column FX<base>CAD per quoted currency, one row per day
   (the constructor fills every day of the range) *)
exchange ==
    [columns |-> {<<"USD", "CAD">>},
     rates   |-> [d \in Dates |-> [USD |-> R(2)]]]

currencies(self) == UNION {{col[1], col[2]} : col \in self.columns}

(* get_rate: [ok, value]; ok = FALSE when the lookup raises *)
RECURSIVE get_rate(_, _, _, _)
get_rate(self, base_currency, quote_currency, date) ==
    IF base_currency \notin currencies(self) \/ quote_currency \notin currencies(self)
    THEN [ok |-> FALSE, value |-> Zero]
    ELSE IF quote_currency /= "CAD"
    THEN LET base_cad  == get_rate(self, base_currency, "CAD", date)
             quote_cad == get_rate(self, quote_currency, "CAD", date)
         IN  IF base_cad.ok /\ quote_cad.ok /\ quote_cad.value /= Zero
             THEN [ok |-> TRUE, value |-> RDiv(base_cad.value, quote_cad.value)]
             ELSE [ok |-> FALSE, value |-> Zero]
    ELSE IF base_currency = "CAD"
    THEN [ok |-> TRUE, value |-> One]
    ELSE IF date \in DOMAIN self.rates
    THEN [ok |-> TRUE, value |-> self.rates[date][base_currency]]
    ELSE [ok |-> FALSE, value |-> Zero]

---------------------------------------------------------------------------
(* Transaction *)

Transaction(date, description, base_currency, quote_currency, quantity, price, fees, quote_to_reporting_rate) ==
    [date |-> date, description |-> description,
     base_currency |-> base_currency, quote_currency |-> quote_currency,
     quantity |-> quantity, price |-> price, fees |-> fees,
     quote_to_reporting_rate |-> quote_to_reporting_rate]

cost(self) == RAdd(RMul(self.quantity, self.price), self.fees)

(* with_effective_price raises ZeroDivisionError exactly when this holds *)
with_effective_price_raises(self) == self.quantity = Zero

(* Fees added to the price per unit without dividing them by the quantity *)
with_effective_price_per_unit_fee(self) ==
    [self EXCEPT !.price = RAdd(self.price, self.fees), !.fees = Zero]

with_effective_price(self) ==
    [self EXCEPT !.price = RDiv(cost(self), self.quantity), !.fees = Zero]

(* flip raises: "ValueError" (rate unset), "ZeroDivisionError" (1 / price), or "ok" *)
flip_raises(self) ==
    IF self.quote_to_reporting_rate = None THEN "ValueError"
    ELSE IF self.price = Zero THEN "ZeroDivisionError"
    ELSE "ok"

(* flip that keeps the rate of the old quote currency *)
flip_keeping_rate(self) ==
    Transaction(self.date, self.description,
                self.quote_currency, self.base_currency,
                RNeg(RMul(self.quantity, self.price)),
                RDiv(One, self.price),
                RDiv(self.fees, self.price),
                self.quote_to_reporting_rate)

flip(self) ==
    Transaction(self.date, self.description,
                self.quote_currency, self.base_currency,
                RNeg(RMul(self.quantity, self.price)),
                RDiv(One, self.price),
                RDiv(self.fees, self.price),
                RMul(self.quote_to_reporting_rate, self.price))

---------------------------------------------------------------------------
(* Asset and Holdings *)

Asset(date, asset) == [date |-> date, asset |-> asset, quantity |-> Zero, acb |-> Zero]

(* Holdings(): the empty SortedDict *)
EmptyHoldings == <<>>

Holdings_key(asset) == <<asset.date, asset.asset>>

(* Order of the SortedDict's keys: tuples (date, asset) *)
KeyLt(k1, k2) ==
    \/ k1[1] < k2[1]
    \/ k1[1] = k2[1] /\ AssetRank(k1[2]) < AssetRank(k2[2])

(* Holdings.add that writes whatever the overwrite flag says *)
Holdings_add_unchecked(historical, asset, overwrite) ==
    LET key == Holdings_key(asset) IN
    [outcome |-> "ok",
     historical |-> [k \in DOMAIN historical \cup {key} |->
                        IF k = key THEN asset ELSE historical[k]]]

(* Holdings.add: [outcome, historical] *)
Holdings_add(historical, asset, overwrite) ==
    LET key == Holdings_key(asset) IN
    IF key \in DOMAIN historical /\ ~overwrite
    THEN [outcome |-> "ValueError", historical |-> historical]
    ELSE [outcome |-> "ok",
          historical |-> [k \in DOMAIN historical \cup {key} |->
                             IF k = key THEN asset ELSE historical[k]]]

(* Holdings.get comparing with < where the code compares with <= *)
RECURSIVE Holdings_get_from_strict(_, _, _, _)
Holdings_get_from_strict(historical, keys, asset, date) ==
    IF keys = {} THEN Asset(date, asset)
    ELSE LET key == CHOOSE k \in keys : \A j \in keys : ~KeyLt(k, j) IN
         IF key[2] = asset /\ (date = NoDate \/ key[1] < date)
         THEN historical[key]
         ELSE Holdings_get_from_strict(historical, keys \ {key}, asset, date)

(* The loop of Holdings.get over reversed(self.historical.keys()), restricted to
   the keys not yet visited *)
RECURSIVE Holdings_get_from(_, _, _, _)
Holdings_get_from(historical, keys, asset, date) ==
    IF keys = {} THEN Asset(date, asset)
    ELSE LET key == CHOOSE k \in keys : \A j \in keys : ~KeyLt(k, j) IN
         IF key[2] = asset /\ (date = NoDate \/ key[1] <= date)
         THEN historical[key]
         ELSE Holdings_get_from(historical, keys \ {key}, asset, date)

Holdings_get(historical, asset, date) ==
    Holdings_get_from(historical, DOMAIN historical, asset, date)

---------------------------------------------------------------------------
(* isclose: the tolerance comparison imported by processing.py *)

RelTol == <<1, 8>>

AbsTol == <<1, 2>>

Tolerance(a, b) == RMax(RMul(RelTol, RMax(RAbs(a), RAbs(b))), AbsTol)

isclose(a, b) == RLe(RAbs(RSub(a, b)), Tolerance(a, b))

---------------------------------------------------------------------------
(* process_transaction *)

(* The result of one call: outcome ("ok" or the exception raised), the holdings
   store the call leaves, the value returned (gain), and what the call did on
   the way: trx is the transaction as last rebound, nested the result of the
   funding call of a Vest, mid the store when the call goes on after it, and
   base_holding / quote_holding the snapshots as read on lines 75-76. *)
Outcome(outcome, trx, historical, nested, mid, base_holding, quote_holding, gain) ==
    [outcome |-> outcome, trx |-> trx, holdings |-> historical, nested |-> nested,
     mid |-> mid, base_holding |-> base_holding, quote_holding |-> quote_holding,
     gain |-> gain]

(* Rate resolution that asks the rate source whether or not a rate is given *)
resolve_rate_always_queries(trx, exchange_, reporting_currency_) ==
    IF trx.quote_currency = reporting_currency_
    THEN [ok |-> TRUE, trx |-> [trx EXCEPT !.quote_to_reporting_rate = One]]
    ELSE LET r == get_rate(exchange_, trx.quote_currency, reporting_currency_, trx.date)
         IN  IF r.ok
             THEN [ok |-> TRUE, trx |-> [trx EXCEPT !.quote_to_reporting_rate = r.value]]
             ELSE [ok |-> FALSE, trx |-> trx]

(* lines 37-49: [ok, trx] *)
resolve_rate(trx, exchange_, reporting_currency_) ==
    IF trx.quote_to_reporting_rate /= None THEN [ok |-> TRUE, trx |-> trx]
    ELSE IF trx.quote_currency = reporting_currency_
    THEN [ok |-> TRUE, trx |-> [trx EXCEPT !.quote_to_reporting_rate = One]]
    ELSE LET r == get_rate(exchange_, trx.quote_currency, reporting_currency_, trx.date)
         IN  IF r.ok
             THEN [ok |-> TRUE, trx |-> [trx EXCEPT !.quote_to_reporting_rate = r.value]]
             ELSE [ok |-> FALSE, trx |-> trx]

(* lines 55-64 *)
funding_transaction(trx, reporting_currency_) ==
    Transaction(trx.date, Replace(trx.description, Vest, Funding),
                trx.quote_currency, reporting_currency_,
                cost(trx), trx.quote_to_reporting_rate, Zero, One)

(* The sufficiency check without the tolerance *)
insufficient_funds_strict(quote_holding, trx) ==
    RLt(quote_holding.quantity, cost(trx))

(* line 101 *)
insufficient_funds(quote_holding, trx) ==
    RLt(quote_holding.quantity, cost(trx)) /\ ~isclose(quote_holding.quantity, cost(trx))

(* The ACB update weighting the quote ACB by trx.quantity instead of trx.cost *)
update_base_by_quantity(base_holding, quote_holding, trx, reporting_currency_) ==
    [base_holding EXCEPT
        !.acb = IF trx.base_currency /= reporting_currency_
                THEN RDiv(RAdd(RMul(base_holding.quantity, base_holding.acb),
                               RMul(trx.quantity, quote_holding.acb)),
                          RAdd(base_holding.quantity, trx.quantity))
                ELSE @,
        !.quantity = RAdd(@, trx.quantity),
        !.date = trx.date]

(* lines 79-84: the base snapshot after the ACB and quantity update; the caller
   checks the divisor *)
update_base(base_holding, quote_holding, trx, reporting_currency_) ==
    [base_holding EXCEPT
        !.acb = IF trx.base_currency /= reporting_currency_
                THEN RDiv(RAdd(RMul(base_holding.quantity, base_holding.acb),
                               RMul(cost(trx), quote_holding.acb)),
                          RAdd(base_holding.quantity, trx.quantity))
                ELSE @,
        !.quantity = RAdd(@, trx.quantity),
        !.date = trx.date]

(* The gain computed as Cost Base - Gross Proceeds *)
capital_gain_swapped(quote_holding, trx, reporting_currency_) ==
    IF trx.base_currency = reporting_currency_
    THEN LET cost_base      == RMul(quote_holding.acb, cost(trx))
             gross_proceeds == trx.quantity
         IN  <<[Date |-> trx.date, CostBase |-> cost_base,
                GrossProceeds |-> gross_proceeds,
                CapitalGain |-> RSub(cost_base, gross_proceeds)]>>
    ELSE None

(* The gain emitted when the quote currency is the reporting currency *)
capital_gain_on_quote(quote_holding, trx, reporting_currency_) ==
    IF trx.quote_currency = reporting_currency_
    THEN LET cost_base      == RMul(quote_holding.acb, cost(trx))
             gross_proceeds == trx.quantity
         IN  <<[Date |-> trx.date, CostBase |-> cost_base,
                GrossProceeds |-> gross_proceeds,
                CapitalGain |-> RSub(gross_proceeds, cost_base)]>>
    ELSE None

(* lines 87-98 *)
capital_gain(quote_holding, trx, reporting_currency_) ==
    IF trx.base_currency = reporting_currency_
    THEN LET cost_base      == RMul(quote_holding.acb, cost(trx))
             gross_proceeds == trx.quantity
         IN  <<[Date |-> trx.date, CostBase |-> cost_base,
                GrossProceeds |-> gross_proceeds,
                CapitalGain |-> RSub(gross_proceeds, cost_base)]>>
    ELSE None

(* The quote update scaling the ACB with the quantity left, as a total cost
   base would be *)
update_quote_total(quote_holding, trx) ==
    [quote_holding EXCEPT
        !.acb = RMul(@, RSub(quote_holding.quantity, cost(trx))),
        !.quantity = RSub(@, cost(trx)),
        !.date = trx.date]

(* lines 111-112 *)
update_quote(quote_holding, trx) ==
    [quote_holding EXCEPT !.quantity = RSub(@, cost(trx)), !.date = trx.date]

(* A call that keeps only the snapshots of the date it writes *)
commit_latest_only(historical, base_holding, quote_holding) ==
    LET written == Holdings_add(Holdings_add(historical, base_holding, TRUE).historical,
                                quote_holding, TRUE).historical
    IN  [k \in {j \in DOMAIN written : j[1] = base_holding.date} |-> written[k]]

(* A call that writes neither snapshot *)
commit_nothing(historical, base_holding, quote_holding) == historical

(* lines 114-115 *)
commit(historical, base_holding, quote_holding) ==
    Holdings_add(Holdings_add(historical, base_holding, TRUE).historical,
                 quote_holding, TRUE).historical

(* The base snapshot written before the sufficiency check *)
settle_holdings_base_first(trx, nested, mid, reporting_currency_, base_holding, quote_holding) ==
    IF /\ trx.base_currency /= reporting_currency_
       /\ RAdd(base_holding.quantity, trx.quantity) = Zero
    THEN Outcome("ZeroDivisionError", trx, mid, nested, mid,
                 <<base_holding>>, <<quote_holding>>, None)
    ELSE IF insufficient_funds(quote_holding, trx)
    THEN Outcome("InsufficientFunds", trx,
                 Holdings_add(mid, update_base(base_holding, quote_holding, trx,
                                               reporting_currency_),
                              TRUE).historical,
                 nested, mid, <<base_holding>>, <<quote_holding>>, None)
    ELSE Outcome("ok", trx,
                 commit(mid,
                        update_base(base_holding, quote_holding, trx,
                                    reporting_currency_),
                        update_quote(quote_holding, trx)),
                 nested, mid, <<base_holding>>, <<quote_holding>>,
                 capital_gain(quote_holding, trx, reporting_currency_))

(* lines 78-117, given the snapshots read on lines 75-76 *)
settle_holdings(trx, nested, mid, reporting_currency_, base_holding, quote_holding) ==
    IF /\ trx.base_currency /= reporting_currency_
       /\ RAdd(base_holding.quantity, trx.quantity) = Zero
    THEN Outcome("ZeroDivisionError", trx, mid, nested, mid,
                 <<base_holding>>, <<quote_holding>>, None)
    ELSE IF insufficient_funds(quote_holding, trx)
    THEN Outcome("InsufficientFunds", trx, mid, nested, mid,
                 <<base_holding>>, <<quote_holding>>, None)
    ELSE Outcome("ok", trx,
                 commit(mid,
                        update_base(base_holding, quote_holding, trx,
                                    reporting_currency_),
                        update_quote(quote_holding, trx)),
                 nested, mid, <<base_holding>>, <<quote_holding>>,
                 capital_gain(quote_holding, trx, reporting_currency_))

(* lines 74-76 *)
read_holdings(trx, nested, mid, reporting_currency_) ==
    settle_holdings(trx, nested, mid, reporting_currency_,
                    Holdings_get(mid, trx.base_currency, trx.date),
                    Holdings_get(mid, trx.quote_currency, trx.date))

(* lines 70-117, on the store mid that the funding call (if any) left *)
settle(trx1, nested, mid, reporting_currency_) ==
    IF RLt(trx1.quantity, Zero)
    THEN IF flip_raises(trx1) /= "ok"
         THEN Outcome(flip_raises(trx1), trx1, mid, nested, mid, None, None, None)
         ELSE read_holdings(flip(trx1), nested, mid, reporting_currency_)
    ELSE read_holdings(trx1, nested, mid, reporting_currency_)

(* lines 68-117, given the result of the funding call *)
after_funding(trx1, nested, historical, reporting_currency_) ==
    IF nested.outcome /= "ok"
    THEN Outcome(nested.outcome, trx1, nested.holdings, <<nested>>,
                 historical, None, None, None)
    ELSE settle(trx1, <<nested>>, nested.holdings, reporting_currency_)

RECURSIVE process_transaction(_, _, _, _)

(* lines 51-117, given the outcome of lines 37-49 *)
after_rate(rated, historical, exchange_, reporting_currency_) ==
    IF ~rated.ok
    THEN Outcome("RateError", rated.trx, historical, None, historical,
                 None, None, None)
    ELSE IF Contains(Vest, rated.trx.description)
    THEN after_funding(rated.trx,
                       process_transaction(
                           funding_transaction(rated.trx, reporting_currency_),
                           historical, exchange_, reporting_currency_),
                       historical, reporting_currency_)
    ELSE settle(rated.trx, None, historical, reporting_currency_)

(* lines 14-117 *)
process_transaction(trx0, historical, exchange_, reporting_currency_) ==
    IF with_effective_price_raises(trx0)
    THEN Outcome("ZeroDivisionError", trx0, historical, None, historical,
                 None, None, None)
    ELSE after_rate(resolve_rate(with_effective_price(trx0), exchange_,
                                 reporting_currency_),
                    historical, exchange_, reporting_currency_)

---------------------------------------------------------------------------
(* process_transactions *)

(* Number of parameters of process_transaction (trx, holdings, exchange,
   reporting_currency) *)
process_transaction_params == 4

(* A call of process_transaction with positional arguments args: Python raises
   TypeError before the body runs when more arguments are given than the
   function has parameters. *)
call_process_transaction(args) ==
    IF Len(args) > process_transaction_params
    THEN Outcome("TypeError", args[1], args[2], None, args[2], None, None, None)
    ELSE process_transaction(args[1], args[2], args[3], args[4])

RECURSIVE process_transactions_from(_, _, _, _, _, _)

(* line 147 onwards, given the result r of the call for transactions[i]: the
   value returned by the call is dropped *)
after_call(r, transactions, i, capgains, exchange_, reporting_currency_) ==
    IF r.outcome /= "ok"
    THEN [outcome |-> r.outcome, holdings |-> r.holdings, capgains |-> capgains]
    ELSE process_transactions_from(transactions, i + 1, r.holdings, capgains,
                                   exchange_, reporting_currency_)

(* lines 146-147: the loop over transactions[i..]; capgains is passed where
   exchange is expected, and exchange as a fifth argument *)
process_transactions_from(transactions, i, historical, capgains, exchange_, reporting_currency_) ==
    IF i > Len(transactions)
    THEN [outcome |-> "ok", holdings |-> historical, capgains |-> capgains]
    ELSE after_call(call_process_transaction(
                        <<transactions[i], historical, capgains,
                          reporting_currency_, exchange_>>),
                    transactions, i, capgains, exchange_, reporting_currency_)

(* lines 120-149 *)
process_transactions(transactions, historical, exchange_, reporting_currency_) ==
    process_transactions_from(transactions, 1, historical, <<>>, exchange_,
                              reporting_currency_)

---------------------------------------------------------------------------
(* Inputs *)

Buy == <<"B", "u", "y">>

Descriptions == {Buy, Vest}

Quantities == {R(-1), R(1)}

Prices == {R(2)}

Fees == {Zero, <<1, 2>>}

Rates == {None, R(3)}

(* A trade converts one asset against another one *)
Pairs == {pair \in Assets \X Assets : pair[1] /= pair[2]}

Trades ==
    {Transaction(d, desc, pair[1], pair[2], n, p, f, r) :
        d \in Dates, desc \in Descriptions, pair \in Pairs,
        n \in Quantities, p \in Prices, f \in Fees, r \in Rates}

(* Zero quantity: with_effective_price raises before another field is read *)
ZeroTrades ==
    {Transaction(1, desc, "USD", "CAD", Zero, R(2), Zero, None) :
        desc \in Descriptions}

Transactions == Trades \cup ZeroTrades

(* The transactions of a batch *)
BatchTransactions ==
    {Transaction(1, Buy, "USD", "CAD", R(1), R(2), Zero, None),
     Transaction(MaxDate, Buy, "USD", "CAD", R(-1), R(2), Zero, None),
     Transaction(MaxDate, Buy, "AAPL", "USD", R(1), R(1), Zero, None)}

Batches == UNION {[1..n -> BatchTransactions] : n \in 0..MaxBatch}

Snapshot(date, asset, quantity, acb) ==
    [date |-> date, asset |-> asset, quantity |-> quantity, acb |-> acb]

(* Stores a caller hands in: built by Holdings.add from the empty store *)
RECURSIVE Seeded(_)
Seeded(snapshots) ==
    IF snapshots = <<>> THEN EmptyHoldings
    ELSE Holdings_add(Seeded(Tail(snapshots)), Head(snapshots), FALSE).historical

SeedLists ==
    {<<>>,
     <<Snapshot(1, "CAD", R(4), One)>>,
     <<Snapshot(1, "CAD", R(4), One), Snapshot(1, "USD", R(2), R(2))>>,
     <<Snapshot(1, "CAD", R(4), One), Snapshot(1, "USD", R(2), R(2)),
       Snapshot(MaxDate, "AAPL", R(1), R(3))>>,
     <<Snapshot(1, "CAD", R(8), One), Snapshot(MaxDate, "CAD", R(1), One),
       Snapshot(1, "AAPL", R(2), R(3)), Snapshot(MaxDate, "USD", R(4), R(2))>>}

InitialHoldings == {Seeded(l) : l \in SeedLists}

---------------------------------------------------------------------------
(* The state machine: calls of process_transaction and process_transactions
   on one holdings store.  last records the latest call.  An exception is not
   caught anywhere: once a call has raised, the run is over. *)

Init ==
    /\ holdings \in InitialHoldings
    /\ last = [op |-> "init"]
    /\ nops = 0

Running == IF last.op = "init" THEN TRUE ELSE last.res.outcome = "ok"

(* The effect of a call with result res on the state *)
Called(op, input, res) ==
    /\ holdings' = res.holdings
    /\ last' = [op |-> op, input |-> input, pre |-> holdings, res |-> res]
    /\ nops' = nops + 1

ProcessTransaction ==
    /\ nops < MaxOps
    /\ Running
    /\ \E trx \in Transactions :
          Called("process_transaction", trx,
                 process_transaction(trx, holdings, exchange, reporting_currency))

ProcessTransactions ==
    /\ nops < MaxOps
    /\ Running
    /\ \E transactions \in Batches :
          Called("process_transactions", transactions,
                 process_transactions(transactions, holdings, exchange,
                                      reporting_currency))

Next == ProcessTransaction \/ ProcessTransactions

Spec == Init /\ [][Next]_vars

---------------------------------------------------------------------------
(* A run of calls of process_transaction on one holdings store, as the caller
   of lines 146-147 is documented to make them.  last records the latest call
   and, in earlier, the input and the store of the call before it. *)

(* Fees of a run: none, or more than the proceeds of a sale *)
RunFees == {Zero, R(3)}

RunTransactions ==
    {Transaction(d, desc, pair[1], pair[2], n, p, f, None) :
        d \in Dates, desc \in Descriptions, pair \in Pairs,
        n \in Quantities, p \in Prices, f \in RunFees}

InitRun ==
    /\ holdings \in InitialHoldings
    /\ last = [op |-> "init"]
    /\ nops = 0

(* The calls before the one being made, latest first *)
Earlier ==
    IF last.op = "init" THEN <<>>
    ELSE <<[input |-> last.input, pre |-> last.pre]>> \o last.earlier

CalledInRun(input, res, earlier) ==
    /\ holdings' = res.holdings
    /\ last' = [op |-> "process_transaction", input |-> input, pre |-> holdings,
                res |-> res, earlier |-> earlier]
    /\ nops' = nops + 1

ProcessNext ==
    /\ nops < MaxRun
    /\ Running
    /\ \E trx \in RunTransactions :
          CalledInRun(trx,
                      process_transaction(trx, holdings, exchange,
                                          reporting_currency),
                      Earlier)

NextRun == ProcessNext

SpecRun == InitRun /\ [][NextRun]_vars

---------------------------------------------------------------------------
(* The holdings store on its own: calls of Holdings.add and Holdings.get on a
   store that starts empty *)

Snapshots ==
    {Snapshot(d, a, n, One) : d \in Dates, a \in Assets, n \in {R(1), R(2)}}

(* date arguments of get: a date, or omitted *)
AsOf == Dates \cup {NoDate}

InitStore ==
    /\ holdings = EmptyHoldings
    /\ last = [op |-> "init"]
    /\ nops = 0

(* The effect of add with result res on the state *)
Added(asset, overwrite, res) ==
    /\ holdings' = res.historical
    /\ last' = [op |-> "add", asset |-> asset, overwrite |-> overwrite,
                pre |-> holdings, res |-> res]
    /\ nops' = nops + 1

HoldingsAdd ==
    /\ nops < MaxAdds
    /\ Running
    /\ \E asset \in Snapshots, overwrite \in BOOLEAN :
          Added(asset, overwrite, Holdings_add(holdings, asset, overwrite))

HoldingsGet ==
    /\ Running
    /\ \E asset \in Assets, date \in AsOf :
          last' = [op |-> "get", asset |-> asset, date |-> date, pre |-> holdings,
                   res |-> [outcome |-> "ok",
                            value |-> Holdings_get(holdings, asset, date)]]
    /\ UNCHANGED <<holdings, nops>>

NextStore == HoldingsAdd \/ HoldingsGet

SpecStore == InitStore /\ [][NextStore]_vars

---------------------------------------------------------------------------
(* The holdings store with its Asset objects: self.historical maps a key to a
   reference, objects holds the Asset objects of the program (a reference is
   an index), and a caller may assign to the fields of an object it was
   given.  In this specification holdings is the pair of both. *)

EmptyObjectStore == [historical |-> <<>>, objects |-> <<>>]

(* The snapshots the store holds, by key *)
Content(self) ==
    [k \in DOMAIN self.historical |-> self.objects[self.historical[k]]]

(* Asset(...): a new object *)
new_asset(objects, asset) ==
    [objects |-> Append(objects, asset), ref |-> Len(objects) + 1]

(* Returning the stored object itself *)
no_copy(objects, ref) == [objects |-> objects, ref |-> ref]

(* copy.deepcopy of an Asset: a new object with equal fields *)
deepcopy(objects, ref) ==
    [objects |-> Append(objects, objects[ref]), ref |-> Len(objects) + 1]

(* lines 318-319: the key at which the loop of get returns, or None *)
RECURSIVE Holdings_get_key(_, _, _)
Holdings_get_key(keys, asset, date) ==
    IF keys = {} THEN None
    ELSE LET key == CHOOSE k \in keys : \A j \in keys : ~KeyLt(k, j) IN
         IF key[2] = asset /\ (date = NoDate \/ key[1] <= date)
         THEN <<key>>
         ELSE Holdings_get_key(keys \ {key}, asset, date)

(* lines 320-321, given the key found *)
Holdings_get_found(self, found, asset, date) ==
    IF found = None
    THEN new_asset(self.objects, Asset(date, asset))
    ELSE deepcopy(self.objects, self.historical[found[1]])

(* Holdings.get: [objects, ref], the object returned and the objects after *)
Holdings_get_object(self, asset, date) ==
    Holdings_get_found(self, Holdings_get_key(DOMAIN self.historical, asset, date),
                       asset, date)

(* Holdings.add of the object ref: [outcome, historical] *)
Holdings_add_object(self, ref, overwrite) ==
    LET key == Holdings_key(self.objects[ref]) IN
    IF key \in DOMAIN self.historical /\ ~overwrite
    THEN [outcome |-> "ValueError", historical |-> self.historical]
    ELSE [outcome |-> "ok",
          historical |-> [k \in DOMAIN self.historical \cup {key} |->
                             IF k = key THEN ref ELSE self.historical[k]]]

CopySnapshots == {Snapshot(d, a, One, One) : d \in Dates, a \in {"CAD", "USD"}}

(* The object after the assignment asset.<field> = value *)
Assign(asset, field, value) ==
    IF field = "quantity" THEN [asset EXCEPT !.quantity = value]
    ELSE IF field = "acb" THEN [asset EXCEPT !.acb = value]
    ELSE [asset EXCEPT !.date = value]

InitCopy ==
    /\ holdings = EmptyObjectStore
    /\ last = [op |-> "init"]
    /\ nops = 0

(* add(Asset(...), overwrite) with a new object made *)
AddedObject(made, res) ==
    /\ holdings' = [historical |-> res.historical, objects |-> made.objects]
    /\ last' = [op |-> "add", res |-> [outcome |-> res.outcome]]
    /\ nops' = nops + 1

AddObjectMade(made, overwrite) ==
    AddedObject(made,
                Holdings_add_object([holdings EXCEPT !.objects = made.objects],
                                    made.ref, overwrite))

AddObject ==
    /\ Len(holdings.objects) < MaxObjects
    /\ Running
    /\ \E asset \in CopySnapshots, overwrite \in BOOLEAN :
          AddObjectMade(new_asset(holdings.objects, asset), overwrite)

(* get(asset, date): the caller holds the object returned *)
GotObject(asset, date, got) ==
    /\ holdings' = [holdings EXCEPT !.objects = got.objects]
    /\ last' = [op |-> "get", asset |-> asset, date |-> date, ref |-> got.ref,
                stored |-> Content(holdings),
                res |-> [outcome |-> "ok", value |-> got.objects[got.ref]]]
    /\ UNCHANGED nops

GetObject ==
    /\ Len(holdings.objects) < MaxObjects
    /\ Running
    /\ \E asset \in {"CAD", "USD"}, date \in AsOf :
          GotObject(asset, date, Holdings_get_object(holdings, asset, date))

(* The caller assigns to a field of the object the latest get returned *)
Assigned(field, value) ==
    /\ holdings' = [holdings EXCEPT !.objects[last.ref] = Assign(@, field, value)]
    /\ holdings' /= holdings
    /\ last' = [last EXCEPT !.op = "assign"]
    /\ UNCHANGED nops

AssignField ==
    /\ last.op \in {"get", "assign"}
    /\ \/ \E field \in {"quantity", "acb"} : Assigned(field, R(5))
       \/ \E date \in Dates : Assigned("date", date)

NextCopy == AddObject \/ GetObject \/ AssignField

SpecCopy == InitCopy /\ [][NextCopy]_vars

---------------------------------------------------------------------------
(* The methods of Transaction on their own: with_effective_price and flip
   called on a transaction and on the transaction the call before returned *)

MethodQuantities == {R(-2), R(-1), Zero, R(1)}

MethodPrices == {Zero, <<1, 2>>, R(2)}

MethodTransactions ==
    {Transaction(1, Buy, "USD", "CAD", n, p, f, r) :
        n \in MethodQuantities, p \in MethodPrices, f \in Fees, r \in Rates}

InitTransaction ==
    /\ holdings = EmptyHoldings
    /\ nops = 0
    /\ \E trx \in MethodTransactions :
          last = [op |-> "Transaction", self |-> trx,
                  res |-> [outcome |-> "ok", value |-> trx]]

(* The effect of the call self.<op>() with result res; origin is the
   transaction self was returned for *)
Returned(op, self, res) ==
    /\ last' = [op |-> op, self |-> self, from |-> last.op,
                origin |-> last.self, res |-> res]
    /\ nops' = nops + 1
    /\ UNCHANGED holdings

WithEffectivePrice ==
    /\ nops < MaxCalls
    /\ Running
    /\ Returned("with_effective_price", last.res.value,
                IF with_effective_price_raises(last.res.value)
                THEN [outcome |-> "ZeroDivisionError", value |-> last.res.value]
                ELSE [outcome |-> "ok",
                      value |-> with_effective_price(last.res.value)])

Flip ==
    /\ nops < MaxCalls
    /\ Running
    /\ Returned("flip", last.res.value,
                IF flip_raises(last.res.value) /= "ok"
                THEN [outcome |-> flip_raises(last.res.value),
                      value |-> last.res.value]
                ELSE [outcome |-> "ok", value |-> flip(last.res.value)])

NextTransaction == WithEffectivePrice \/ Flip

SpecTransaction == InitTransaction /\ [][NextTransaction]_vars

---------------------------------------------------------------------------
(* Calls of process_transaction on transactions whose descriptions hold
   "Vest" once, twice, nested in itself, inside a longer text, in lower case,
   or not at all *)

VestDescriptions ==
    {Vest,
     Vest \o Vest,
     <<"V">> \o Vest \o <<"e", "s", "t">>,
     <<"R", "S", "U", " ">> \o Vest \o <<"i", "n", "g">>,
     <<"v", "e", "s", "t">>,
     Buy}

VestTransactions ==
    {Transaction(d, desc, pair[1], pair[2], n, R(2), Zero, None) :
        d \in Dates, desc \in VestDescriptions, pair \in Pairs,
        n \in Quantities}

ProcessVest ==
    /\ nops < MaxOps
    /\ Running
    /\ \E trx \in VestTransactions :
          Called("process_transaction", trx,
                 process_transaction(trx, holdings, exchange, reporting_currency))

NextVest == ProcessVest

SpecVest == Init /\ [][NextVest]_vars

---------------------------------------------------------------------------
(* Properties *)

IsCall == last.op = "process_transaction"

(* The calls of process_transaction made by the latest operation: the call
   itself and, for a Vest, the nested funding call.  pre is the store at the
   entry of the call, res.mid the store when the call reads its snapshots,
   res.holdings the store it leaves. *)
CallFrames ==
    IF IsCall
    THEN {[pre |-> last.pre, res |-> last.res]}
         \cup {[pre |-> last.pre, res |-> last.res.nested[i]] :
                  i \in DOMAIN last.res.nested}
    ELSE {}

OkFrames == {f \in CallFrames : f.res.outcome = "ok"}

(* Left fold of process_transaction over txs, collecting the gains returned *)
RECURSIVE FoldTransactions(_, _, _)

FoldStep(r, txs, gains) ==
    IF r.outcome /= "ok"
    THEN [outcome |-> r.outcome, holdings |-> r.holdings, capgains |-> gains]
    ELSE FoldTransactions(Tail(txs), r.holdings, gains \o r.gain)

FoldTransactions(txs, historical, gains) ==
    IF txs = <<>>
    THEN [outcome |-> "ok", holdings |-> historical, capgains |-> gains]
    ELSE FoldStep(process_transaction(Head(txs), historical, exchange,
                                      reporting_currency),
                  txs, gains)

(* C1: process_transactions applies process_transaction to every transaction
   in list order on one store and returns that store together with, in order,
   exactly the gain records the calls returned (stated for the batches on
   which every such call succeeds). *)
C1_BatchIsFold ==
    last.op = "process_transactions" =>
        (FoldTransactions(last.input, last.pre, <<>>).outcome = "ok" =>
            /\ last.res.outcome = "ok"
            /\ last.res.holdings =
                   FoldTransactions(last.input, last.pre, <<>>).holdings
            /\ last.res.capgains =
                   FoldTransactions(last.input, last.pre, <<>>).capgains)

(* C2 as stated: a successful call on a transaction whose base currency (as
   given) is the reporting currency returns a gain record with Capital Gain =
   Gross Proceeds - Cost Base, Gross Proceeds = trx.quantity and Cost Base =
   (ACB of the quote asset before the call) x trx.cost. *)
C2_DisposalIdentityAsStated ==
    (IsCall /\ last.res.outcome = "ok"
            /\ last.input.base_currency = reporting_currency) =>
        /\ Len(last.res.gain) = 1
        /\ last.res.gain[1].CapitalGain =
               RSub(last.res.gain[1].GrossProceeds, last.res.gain[1].CostBase)
        /\ last.res.gain[1].GrossProceeds = last.input.quantity
        /\ last.res.gain[1].CostBase =
               RMul(Holdings_get(last.pre, last.input.quote_currency,
                                 last.input.date).acb,
                    cost(last.input))

(* C2, amended: every successful call whose transaction, after fee and
   direction normalization, has the reporting currency as base currency
   returns a gain record dated trx.date with Capital Gain = Gross Proceeds -
   Cost Base, Gross Proceeds = trx.quantity and Cost Base = (ACB of the quote
   asset as of trx.date in the store the call reads, i.e. before its own
   update) x trx.cost, trx being the normalized transaction. *)
C2_DisposalIdentity ==
    \A f \in OkFrames :
        f.res.trx.base_currency = reporting_currency =>
            /\ Len(f.res.gain) = 1
            /\ f.res.gain[1].Date = f.res.trx.date
            /\ f.res.gain[1].CapitalGain =
                   RSub(f.res.gain[1].GrossProceeds, f.res.gain[1].CostBase)
            /\ f.res.gain[1].GrossProceeds = f.res.trx.quantity
            /\ f.res.gain[1].CostBase =
                   RMul(Holdings_get(f.res.mid, f.res.trx.quote_currency,
                                     f.res.trx.date).acb,
                        cost(f.res.trx))

(* A sell of an asset for the reporting currency, flipped, with a gain that is
   not zero *)
C2_Witness ==
    /\ IsCall
    /\ last.res.outcome = "ok"
    /\ RLt(last.input.quantity, Zero)
    /\ last.input.quote_currency = reporting_currency
    /\ last.res.trx.base_currency = reporting_currency
    /\ Len(last.res.gain) = 1
    /\ last.res.gain[1].CapitalGain /= Zero
    /\ last.res.gain[1].CostBase /= Zero

(* C3: a call returns at most one gain record; a successful call returns one
   exactly when the base currency of the normalized transaction is the
   reporting currency, the nested funding call of a Vest included, whose
   record is not the outer call's; a call that raises returns none. *)
C3_GainIffReportingBase ==
    \A f \in CallFrames :
        /\ Len(f.res.gain) <= 1
        /\ f.res.outcome = "ok" =>
               (f.res.gain /= None <=>
                    f.res.trx.base_currency = reporting_currency)
        /\ f.res.outcome /= "ok" => f.res.gain = None

(* A Vest whose funding call returned a gain record while the Vest itself
   returned none *)
C3_Witness ==
    /\ IsCall
    /\ last.res.outcome = "ok"
    /\ last.res.gain = None
    /\ Len(last.res.nested) = 1
    /\ last.res.nested[1].gain /= None

(* C4: after every successful call the quote asset's quantity as of trx.date
   is its quantity before minus trx.cost (within tolerance) and the base
   asset's quantity is its quantity before plus trx.quantity, trx being the
   normalized transaction and "before" the store the call reads its
   snapshots from. *)
C4_QuantityConservation ==
    \A f \in OkFrames :
        /\ isclose(Holdings_get(f.res.holdings, f.res.trx.quote_currency,
                                f.res.trx.date).quantity,
                   RSub(Holdings_get(f.res.mid, f.res.trx.quote_currency,
                                     f.res.trx.date).quantity,
                        cost(f.res.trx)))
        /\ Holdings_get(f.res.holdings, f.res.trx.base_currency,
                        f.res.trx.date).quantity =
               RAdd(Holdings_get(f.res.mid, f.res.trx.base_currency,
                                 f.res.trx.date).quantity,
                    f.res.trx.quantity)

(* C5: a call that reaches the sufficiency check raises the insufficient-funds
   error exactly when trx.cost exceeds the held quantity of the quote asset by
   more than the tolerance, and otherwise succeeds: so it succeeds when
   trx.cost equals the held quantity or exceeds it by no more than the
   tolerance, and never raises that error when the held quantity is at least
   trx.cost. *)
C5_InsufficientFundsBoundary ==
    \A f \in CallFrames :
        (f.res.quote_holding /= None /\ f.res.outcome /= "ZeroDivisionError") =>
            /\ f.res.outcome \in {"ok", "InsufficientFunds"}
            /\ f.res.outcome = "InsufficientFunds" <=>
                   RLt(Tolerance(f.res.quote_holding[1].quantity, cost(f.res.trx)),
                       RSub(cost(f.res.trx), f.res.quote_holding[1].quantity))
            /\ cost(f.res.trx) = f.res.quote_holding[1].quantity =>
                   f.res.outcome = "ok"
            /\ RLe(cost(f.res.trx), f.res.quote_holding[1].quantity) =>
                   f.res.outcome = "ok"

(* A call that succeeds although trx.cost exceeds the held quantity *)
C5_Witness ==
    /\ IsCall
    /\ last.res.outcome = "ok"
    /\ RLt(last.res.quote_holding[1].quantity, cost(last.res.trx))
    /\ RLt(Zero, last.res.quote_holding[1].quantity)

(* The transaction of a call after lines 35-49 *)
Rated(trx) ==
    resolve_rate(with_effective_price(trx), exchange, reporting_currency).trx

RateResolves(trx) ==
    resolve_rate(with_effective_price(trx), exchange, reporting_currency).ok

(* C6: a Vest buy needs no funds of the holder: it succeeds when the holder
   has no balance of the quote currency and none of the reporting currency,
   and it does not reduce a balance of the reporting currency. *)
C6_VestNeedsNoFunds ==
    (/\ IsCall
     /\ Contains(Vest, last.input.description)
     /\ RLt(Zero, last.input.quantity)
     /\ RateResolves(last.input)) =>
        /\ (/\ Holdings_get(last.pre, last.input.quote_currency,
                            last.input.date).quantity = Zero
            /\ Holdings_get(last.pre, reporting_currency,
                            last.input.date).quantity = Zero)
               => last.res.outcome = "ok"
        /\ last.res.outcome = "ok" =>
               RLe(Holdings_get(last.pre, reporting_currency,
                                last.input.date).quantity,
                   Holdings_get(holdings, reporting_currency,
                                last.input.date).quantity)

(* C7: for a Vest the funding transaction (base = trx.quote_currency, quote =
   reporting currency, quantity = trx.cost, price = the rate, fees = 0, rate =
   1) is processed and committed before the outer call reads its snapshots,
   which therefore come from the store the funding call left, in which the
   holding of trx.quote_currency is the one before the call increased by
   trx.cost. *)
C7_FundingLandsFirst ==
    (/\ IsCall
     /\ Contains(Vest, last.input.description)
     /\ Len(last.res.nested) = 1
     /\ last.res.nested[1].outcome = "ok") =>
        /\ last.res.mid = last.res.nested[1].holdings
        /\ RLt(Zero, cost(Rated(last.input))) =>
               last.res.nested[1].trx =
                   Transaction(last.input.date,
                               Replace(last.input.description, Vest, Funding),
                               last.input.quote_currency, reporting_currency,
                               cost(Rated(last.input)),
                               Rated(last.input).quote_to_reporting_rate,
                               Zero, One)
        /\ last.res.quote_holding /= None =>
               /\ last.res.quote_holding[1] =
                      Holdings_get(last.res.nested[1].holdings,
                                   last.res.trx.quote_currency, last.res.trx.date)
               /\ last.res.base_holding[1] =
                      Holdings_get(last.res.nested[1].holdings,
                                   last.res.trx.base_currency, last.res.trx.date)
        /\ Holdings_get(last.res.mid, last.input.quote_currency,
                        last.input.date).quantity =
               RAdd(Holdings_get(last.pre, last.input.quote_currency,
                                 last.input.date).quantity,
                    cost(Rated(last.input)))

(* C8: in every call the ACB of an asset, as of any date, changes only if the
   call succeeds and the asset is the base currency of the normalized
   transaction and not the reporting currency; an asset that is only the quote
   side gets a snapshot dated trx.date with its quantity reduced by trx.cost
   and its ACB unchanged; the reporting currency's ACB never changes. *)
C8_AcbChangesOnlyOnAcquisition ==
    /\ \A f \in CallFrames : \A a \in Assets : \A d \in AsOf :
          Holdings_get(f.res.holdings, a, d).acb /= Holdings_get(f.res.mid, a, d).acb
              => /\ f.res.outcome = "ok"
                 /\ a = f.res.trx.base_currency
                 /\ a /= reporting_currency
    /\ \A f \in OkFrames :
          f.res.trx.quote_currency /= f.res.trx.base_currency =>
              Holdings_get(f.res.holdings, f.res.trx.quote_currency, f.res.trx.date) =
                  [date     |-> f.res.trx.date,
                   asset    |-> f.res.trx.quote_currency,
                   quantity |-> RSub(f.res.quote_holding[1].quantity, cost(f.res.trx)),
                   acb      |-> Holdings_get(f.res.mid, f.res.trx.quote_currency,
                                             f.res.trx.date).acb]
    /\ IsCall => \A d \in AsOf :
          Holdings_get(holdings, reporting_currency, d).acb =
              Holdings_get(last.pre, reporting_currency, d).acb

(* A call that changes the ACB of its base asset and spends a quote asset
   whose ACB is not zero *)
C8_Witness ==
    \E f \in OkFrames :
        /\ f.res.trx.base_currency /= f.res.trx.quote_currency
        /\ Holdings_get(f.res.holdings, f.res.trx.base_currency, f.res.trx.date).acb
               /= Holdings_get(f.res.mid, f.res.trx.base_currency, f.res.trx.date).acb
        /\ f.res.quote_holding[1].acb /= Zero
        /\ f.res.quote_holding[1].date /= f.res.trx.date

(* C9: when the base currency of the normalized transaction is not the
   reporting currency, the new ACB of the base asset satisfies
   new_acb x (old_quantity + trx.quantity) =
       old_quantity x old_acb + trx.cost x quote_acb,
   quote_acb being the ACB of the quote asset before the transaction; holding
   10 units at ACB 5 and acquiring 10 units at a cost of 8 each gives 6.5. *)
C9_AverageCostWeighting ==
    /\ \A f \in OkFrames :
          f.res.trx.base_currency /= reporting_currency =>
              RMul(Holdings_get(f.res.holdings, f.res.trx.base_currency,
                                f.res.trx.date).acb,
                   RAdd(Holdings_get(f.res.mid, f.res.trx.base_currency,
                                     f.res.trx.date).quantity,
                        f.res.trx.quantity))
              = RAdd(RMul(Holdings_get(f.res.mid, f.res.trx.base_currency,
                                       f.res.trx.date).quantity,
                          Holdings_get(f.res.mid, f.res.trx.base_currency,
                                       f.res.trx.date).acb),
                     RMul(cost(f.res.trx),
                          Holdings_get(f.res.mid, f.res.trx.quote_currency,
                                       f.res.trx.date).acb))
    /\ update_base(Snapshot(1, "AAPL", R(10), R(5)), Snapshot(1, "CAD", R(80), One),
                   Transaction(1, Buy, "AAPL", "CAD", R(10), R(8), Zero, One),
                   reporting_currency).acb = <<13, 2>>

(* An acquisition that adds to a position already held, at another unit cost *)
C9_Witness ==
    \E f \in OkFrames :
        /\ f.res.trx.base_currency /= reporting_currency
        /\ RLt(Zero, f.res.base_holding[1].quantity)
        /\ RLt(Zero, f.res.base_holding[1].acb)
        /\ RLt(Zero, f.res.quote_holding[1].acb)
        /\ Holdings_get(f.res.holdings, f.res.trx.base_currency, f.res.trx.date).acb
               /= f.res.base_holding[1].acb

(* C10: Holdings.get(asset, asOf) returns the stored snapshot of that asset
   with the greatest date <= asOf (the greatest date when asOf is omitted),
   never one of another asset or of a later date; when there is none it
   returns a snapshot dated asOf of that asset with quantity 0 and acb 0; the
   store is not modified. *)
C10_GetIsLatestAsOf ==
    last.op = "get" =>
        /\ holdings = last.pre
        /\ last.res.value.asset = last.asset
        /\ \/ /\ \A k \in DOMAIN holdings :
                    ~(k[2] = last.asset /\ (last.date = NoDate \/ k[1] <= last.date))
              /\ last.res.value = [date |-> last.date, asset |-> last.asset,
                                   quantity |-> Zero, acb |-> Zero]
           \/ \E k \in DOMAIN holdings :
                 /\ k[2] = last.asset
                 /\ last.date = NoDate \/ k[1] <= last.date
                 /\ \A j \in DOMAIN holdings :
                       (j[2] = last.asset /\ (last.date = NoDate \/ j[1] <= last.date))
                           => j[1] <= k[1]
                 /\ last.res.value = holdings[k]

(* A get as of a date that skips a later snapshot of the asset and a snapshot
   of another asset stored after the one returned *)
C10_Witness ==
    /\ last.op = "get"
    /\ last.date /= NoDate
    /\ \E k \in DOMAIN holdings : k[2] = last.asset /\ k[1] > last.date
    /\ \E k \in DOMAIN holdings :
          k[2] /= last.asset /\ KeyLt(<<last.res.value.date, last.asset>>, k)
                             /\ k[1] <= last.date
    /\ last.res.value.quantity /= Zero

(* C11: add on a (date, asset) key already present raises the duplicate-key
   error when overwrite is false and leaves the store unchanged; when
   overwrite is true it replaces the value at that key only; on a new key it
   inserts the snapshot and leaves every other key unchanged. *)
C11_AddDuplicateKey ==
    last.op = "add" =>
        IF Holdings_key(last.asset) \in DOMAIN last.pre /\ ~last.overwrite
        THEN /\ last.res.outcome = "ValueError"
             /\ holdings = last.pre
        ELSE /\ last.res.outcome = "ok"
             /\ DOMAIN holdings = DOMAIN last.pre \cup {Holdings_key(last.asset)}
             /\ holdings[Holdings_key(last.asset)] = last.asset
             /\ \A k \in DOMAIN last.pre :
                   k /= Holdings_key(last.asset) => holdings[k] = last.pre[k]

(* A refused add of a snapshot that differs from the stored one, on a store
   with another key *)
C11_Witness ==
    /\ last.op = "add"
    /\ ~last.overwrite
    /\ Holdings_key(last.asset) \in DOMAIN last.pre
    /\ last.pre[Holdings_key(last.asset)] /= last.asset
    /\ Cardinality(DOMAIN last.pre) > 1
    /\ last.res.outcome = "ValueError"

(* The outcome and the store of processing t1 and then t2 on store h differ
   from those of processing t2 and then t1: another final store, or success
   in one order and the insufficient-funds error in the other *)
OrderMatters(h, t1, t2) ==
    \/ FoldTransactions(<<t1, t2>>, h, <<>>).holdings
           /= FoldTransactions(<<t2, t1>>, h, <<>>).holdings
    \/ /\ FoldTransactions(<<t1, t2>>, h, <<>>).outcome = "ok"
       /\ FoldTransactions(<<t2, t1>>, h, <<>>).outcome = "InsufficientFunds"
    \/ /\ FoldTransactions(<<t2, t1>>, h, <<>>).outcome = "ok"
       /\ FoldTransactions(<<t1, t2>>, h, <<>>).outcome = "InsufficientFunds"

(* C12: process_transaction is not commutative: there are two transactions
   and an initial holdings store such that processing them in one order and
   in the reversed order gives different results (stated where a run
   starts, over the stores and the transactions of a run). *)
C12_OrderDependence ==
    nops = 0 =>
        \E h \in InitialHoldings : \E t1 \in RunTransactions :
            \E t2 \in RunTransactions : OrderMatters(h, t1, t2)

(* A run of two successful calls, the first dated before the second, whose
   transactions in the reversed order leave another store *)
C12_Witness ==
    /\ IsCall
    /\ last.res.outcome = "ok"
    /\ Len(last.earlier) = 1
    /\ last.earlier[1].input.date < last.input.date
    /\ FoldTransactions(<<last.input, last.earlier[1].input>>,
                        last.earlier[1].pre, <<>>).outcome = "ok"
    /\ FoldTransactions(<<last.input, last.earlier[1].input>>,
                        last.earlier[1].pre, <<>>).holdings /= holdings
    /\ OrderMatters(last.earlier[1].pre, last.earlier[1].input, last.input)

(* The keys a successful call writes: (trx.date, base) and (trx.date, quote) *)
WrittenKeys(f) ==
    {<<f.res.trx.date, f.res.trx.base_currency>>,
     <<f.res.trx.date, f.res.trx.quote_currency>>}

(* C13: the holdings store only grows: no call removes a (date, asset) key,
   the keys after a call (the funding call of a Vest included) are a superset
   of the keys before it, a successful call adds the one or two snapshots of
   its own two add calls, at the keys (trx.date, base) and (trx.date, quote),
   and leaves every other key as it was, and every key holds the one snapshot
   of that date and asset. *)
C13_StoreOnlyGrows ==
    /\ \A f \in CallFrames :
          /\ DOMAIN f.pre \subseteq DOMAIN f.res.mid
          /\ DOMAIN f.res.mid \subseteq DOMAIN f.res.holdings
          /\ f.res.outcome /= "ok" => f.res.holdings = f.res.mid
    /\ \A f \in OkFrames :
          /\ DOMAIN f.res.holdings = DOMAIN f.res.mid \cup WrittenKeys(f)
          /\ Cardinality(WrittenKeys(f)) \in {1, 2}
          /\ \A k \in DOMAIN f.res.mid \ WrittenKeys(f) :
                f.res.holdings[k] = f.res.mid[k]
    /\ IsCall => DOMAIN last.pre \subseteq DOMAIN holdings
    /\ \A k \in DOMAIN holdings : Holdings_key(holdings[k]) = k

(* The second call of a run, a Vest: its funding call and the call itself
   each add a key and replace a snapshot of the same date, and snapshots of
   another date stay *)
C13_Witness ==
    /\ IsCall
    /\ last.res.outcome = "ok"
    /\ Len(last.earlier) = 1
    /\ Len(last.res.nested) = 1
    /\ \A f \in OkFrames :
          /\ \E k \in WrittenKeys(f) : k \notin DOMAIN f.res.mid
          /\ \E k \in WrittenKeys(f) :
                k \in DOMAIN f.res.mid /\ f.res.holdings[k] /= f.res.mid[k]
    /\ \E k \in DOMAIN last.pre : k[1] /= last.input.date

(* The rate C14 states for a transaction: the one supplied, else 1 for a quote
   in the reporting currency, else the rate source's *)
StatedRate(trx) ==
    IF trx.quote_to_reporting_rate /= None THEN trx.quote_to_reporting_rate
    ELSE IF trx.quote_currency = reporting_currency THEN One
    ELSE get_rate(exchange, trx.quote_currency, reporting_currency, trx.date).value

(* The rate source is asked and raises *)
LookupFails(trx) ==
    /\ trx.quote_to_reporting_rate = None
    /\ trx.quote_currency /= reporting_currency
    /\ ~get_rate(exchange, trx.quote_currency, reporting_currency, trx.date).ok

(* The fee-normalized transaction with the stated rate *)
WithStatedRate(trx) ==
    [with_effective_price(trx) EXCEPT !.quote_to_reporting_rate = StatedRate(trx)]

(* C14: an unset quote_to_reporting_rate is set to 1 when the quote currency
   is the reporting currency and otherwise to get_rate(quote, reporting,
   date), the call raising when that lookup raises; a supplied rate is used
   and the rate source is not asked (so the call cannot fail on the lookup);
   the rate is set before flip() is invoked, so no call, nested ones
   included, raises flip's unset-rate error. *)
C14_RateResolution ==
    /\ \A f \in CallFrames : f.res.outcome /= "ValueError"
    /\ (IsCall /\ last.input.quantity /= Zero) =>
          /\ last.res.outcome = "RateError" <=> LookupFails(last.input)
          /\ last.res.outcome /= "RateError" =>
                last.res.trx \in {WithStatedRate(last.input),
                                  flip(WithStatedRate(last.input))}
          /\ last.res.outcome = "ok" =>
                last.res.trx = IF RLt(last.input.quantity, Zero)
                               THEN flip(WithStatedRate(last.input))
                               ELSE WithStatedRate(last.input)

(* A sell whose unset rate came from the rate source before the flip *)
C14_Witness ==
    /\ IsCall
    /\ last.res.outcome = "ok"
    /\ RLt(last.input.quantity, Zero)
    /\ last.input.quote_to_reporting_rate = None
    /\ last.input.quote_currency /= reporting_currency
    /\ last.res.trx.base_currency = last.input.quote_currency
    /\ last.res.trx.quote_to_reporting_rate =
           RMul(get_rate(exchange, last.input.quote_currency, reporting_currency,
                         last.input.date).value,
                with_effective_price(last.input).price)

(* C15: get returns a copy: assigning to the quantity, acb or date of a
   snapshot returned by get changes no snapshot in the store, and a get with
   the same arguments still finds the values stored before the assignment. *)
C15_GetReturnsCopy ==
    last.op = "assign" =>
        /\ Content(holdings) = last.stored
        /\ Holdings_get(Content(holdings), last.asset, last.date) = last.res.value
        /\ \A k \in DOMAIN holdings.historical :
              holdings.historical[k] /= last.ref

(* A snapshot found in the store, returned, and changed by the caller in its
   quantity and its date *)
C15_Witness ==
    /\ last.op = "assign"
    /\ \E k \in DOMAIN holdings.historical : Content(holdings)[k] = last.res.value
    /\ holdings.objects[last.ref].quantity /= last.res.value.quantity
    /\ holdings.objects[last.ref].date /= last.res.value.date

(* C16: with_effective_price of a transaction with quantity /= 0 returns a
   transaction with fees = 0 and price = cost / quantity, every other field
   and the cost as in the original, and applying it to its own result returns
   an equal transaction; with quantity = 0 it raises the division error. *)
C16_EffectivePrice ==
    last.op = "with_effective_price" =>
        IF last.self.quantity = Zero
        THEN last.res.outcome = "ZeroDivisionError"
        ELSE /\ last.res.outcome = "ok"
             /\ last.res.value.fees = Zero
             /\ last.res.value.price = RDiv(cost(last.self), last.self.quantity)
             /\ cost(last.res.value) = cost(last.self)
             /\ last.res.value =
                    [last.self EXCEPT !.price = last.res.value.price,
                                      !.fees = Zero]
             /\ with_effective_price(last.res.value) = last.res.value
             /\ last.from = "with_effective_price" => last.res.value = last.self

(* with_effective_price applied to its own result for a sale of two units
   with fees *)
C16_Witness ==
    /\ last.op = "with_effective_price"
    /\ last.from = "with_effective_price"
    /\ last.res.outcome = "ok"
    /\ last.origin.fees /= Zero
    /\ last.origin.quantity = R(-2)
    /\ last.self.price /= last.origin.price

(* A fee-normalized sell with its rate set *)
NormalizedSell(trx) ==
    /\ RLt(trx.quantity, Zero)
    /\ RLt(Zero, trx.price)
    /\ trx.fees = Zero
    /\ trx.quote_to_reporting_rate /= None

(* C17: flip of a fee-normalized sell swaps the currencies and returns
   quantity' = -(quantity x price) > 0, price' = 1 / price and rate' = rate x
   price, so that the flipped cost is -quantity and quantity' x rate' x
   price' = -quantity x price x rate; flip of the result returns the original
   currencies, quantity, price, fees and rate. *)
C17_FlipOfSell ==
    /\ (last.op = "flip" /\ NormalizedSell(last.self)) =>
          /\ last.res.outcome = "ok"
          /\ last.res.value.base_currency = last.self.quote_currency
          /\ last.res.value.quote_currency = last.self.base_currency
          /\ last.res.value.quantity = RNeg(RMul(last.self.quantity, last.self.price))
          /\ RLt(Zero, last.res.value.quantity)
          /\ last.res.value.price = RDiv(One, last.self.price)
          /\ last.res.value.quote_to_reporting_rate =
                 RMul(last.self.quote_to_reporting_rate, last.self.price)
          /\ cost(last.res.value) = RNeg(last.self.quantity)
          /\ RMul(RMul(last.res.value.quantity,
                       last.res.value.quote_to_reporting_rate),
                  last.res.value.price) =
                 RNeg(RMul(RMul(last.self.quantity, last.self.price),
                           last.self.quote_to_reporting_rate))
    /\ (/\ last.op = "flip"
        /\ last.from = "flip"
        /\ NormalizedSell(last.origin)) =>
          /\ last.res.outcome = "ok"
          /\ last.res.value.base_currency = last.origin.base_currency
          /\ last.res.value.quote_currency = last.origin.quote_currency
          /\ last.res.value.quantity = last.origin.quantity
          /\ last.res.value.price = last.origin.price
          /\ last.res.value.fees = last.origin.fees
          /\ last.res.value.quote_to_reporting_rate =
                 last.origin.quote_to_reporting_rate

(* The second flip of a sell of two units at a price other than 1 *)
C17_Witness ==
    /\ last.op = "flip"
    /\ last.from = "flip"
    /\ NormalizedSell(last.origin)
    /\ last.origin.quantity = R(-2)
    /\ last.origin.price /= One
    /\ last.res.outcome = "ok"
    /\ last.self.base_currency = last.origin.quote_currency

(* C18: a call that raises (zero quantity, rate lookup, insufficient funds,
   or any other error) for a transaction whose description does not contain
   "Vest" leaves the holdings store exactly as it was before the call. *)
C18_FailureLeavesStore ==
    (/\ IsCall
     /\ last.res.outcome /= "ok"
     /\ ~Contains(Vest, last.input.description)) =>
        /\ holdings = last.pre
        /\ last.res.nested = None
        /\ last.input.quantity = Zero => last.res.outcome = "ZeroDivisionError"

(* A buy that fails on insufficient funds after its snapshots were read from
   a store holding both assets *)
C18_Witness ==
    /\ IsCall
    /\ last.res.outcome = "InsufficientFunds"
    /\ ~Contains(Vest, last.input.description)
    /\ last.res.base_holding /= None
    /\ last.res.base_holding[1].quantity /= Zero
    /\ last.res.quote_holding[1].quantity /= Zero
    /\ holdings = last.pre

(* A quantity that is >= 0 up to the tolerance *)
NonNegative(quantity) == RLe(Zero, quantity) \/ isclose(quantity, Zero)

(* C19: starting from a store in which every quantity is >= 0, after any
   sequence of successful calls on transactions with quantity /= 0, price > 0
   and fees >= 0, every stored quantity is >= 0 up to the tolerance, and the
   ACB update of a call of such a sequence never divides by zero. *)
C19_NonNegativeHoldings ==
    (/\ IsCall
     /\ last.input.quantity /= Zero
     /\ RLt(Zero, last.input.price)
     /\ RLe(Zero, last.input.fees)
     /\ \A k \in DOMAIN last.pre : NonNegative(last.pre[k].quantity)) =>
        /\ last.res.outcome = "ok" =>
               \A k \in DOMAIN holdings : NonNegative(holdings[k].quantity)
        /\ \A f \in CallFrames :
               ~(f.res.outcome = "ZeroDivisionError" /\ f.res.base_holding /= None)

(* C20: the funding transaction of a Vest has the description with every
   "Vest" replaced by "Funding", which no longer contains "Vest", so its
   call makes no further call: a call makes one nested call when the
   description contains "Vest" and the rate resolves, and none otherwise,
   and the nested call makes none. *)
C20_BoundedRecursion ==
    IsCall =>
        /\ Len(last.res.nested) <= 1
        /\ Len(last.res.nested) = 1 <=>
               /\ Contains(Vest, last.input.description)
               /\ last.input.quantity /= Zero
               /\ RateResolves(last.input)
        /\ \A i \in DOMAIN last.res.nested :
               /\ last.res.nested[i].nested = None
               /\ ~Contains(Vest, last.res.nested[i].trx.description)
               /\ Contains(Funding, last.res.nested[i].trx.description)
               /\ last.res.nested[i].trx.description =
                      Replace(last.input.description, Vest, Funding)

(* A successful Vest whose description holds "Vest" twice *)
C20_Witness ==
    /\ IsCall
    /\ last.res.outcome = "ok"
    /\ last.input.description = Vest \o Vest
    /\ Len(last.res.nested) = 1
    /\ last.res.nested[1].outcome = "ok"
    /\ last.res.nested[1].trx.description = Funding \o Funding

=============================================================================
